---- MODULE Spec2Model ----
(***************************************************************************)
(* Model of the client-side authentication core of GroupGradingWeb:        *)
(* AuthService (src/src/app/auth/auth.service.ts), the AuthGuard route     *)
(* guard and the components that drive them.                               *)
(*                                                                         *)
(* Strings that the code inspects character by character (raw tokens) are  *)
(* sequences of one-character strings.  A JavaScript value of type         *)
(* `string | null` is an option: Null is <<>> and Some(s) is <<s>>.        *)
(***************************************************************************)
EXTENDS Integers, Sequences, FiniteSets, TLC

VARIABLES
    sessionStorage,   \* sessionStorage.getItem(TOKEN_NAME): option of raw string
    localStorage,     \* localStorage.getItem(TOKEN_NAME): option of raw string
    authenticated,    \* AuthService.authenticated
    clock,            \* wall clock, in seconds since the epoch
    loginPending,     \* login requests in flight, in submission order
    registerPending,  \* register requests in flight, in submission order
    lastOp            \* what the last operation did and returned

vars == <<sessionStorage, localStorage, authenticated, clock,
          loginPending, registerPending, lastOp>>

(***************************************************************************)
(* Bounds of the model.                                                    *)
(***************************************************************************)
MaxClock == 3
MaxPending == 2
MaxRegisterPending == 1

(***************************************************************************)
(* Program constants.                                                      *)
(***************************************************************************)
MillisPerSecond == 1000
JwtSegments == 3

LOGIN_SUCCESS_MSG == "login success"
REGISTER_SUCCESS_MSG == "registration success"
LOGIN_ERROR_MSG == "Invalid Username or Password"
STUDENT_REGISTER_URL == "https://groupgradingapi.azurewebsites.net/api/student/register"
TEACHER_REGISTER_URL == "https://groupgradingapi.azurewebsites.net/api/teacher/register"

(***************************************************************************)
(* JavaScript values.                                                      *)
(***************************************************************************)
Null == <<>>
Some(s) == <<s>>
BoolStr(b) == IF b THEN "true" ELSE "false"

\* String(undefined), which Storage.setItem stores for a missing token field
UndefinedString == <<"u", "n", "d", "e", "f", "i", "n", "e", "d">>

\* String.prototype.split('.')
RECURSIVE SplitAcc(_, _, _, _)
SplitAcc(s, i, cur, acc) ==
    IF i > Len(s) THEN Append(acc, cur)
    ELSE IF s[i] = "." THEN SplitAcc(s, i + 1, <<>>, Append(acc, cur))
    ELSE SplitAcc(s, i + 1, Append(cur, s[i]), acc)

Split(s) == SplitAcc(s, 1, <<>>, <<>>)

(***************************************************************************)
(* The raw strings the model stores and receives.  A payload segment is    *)
(* one character that stands for a base64url blob; JsonParseAtob gives     *)
(* what JSON.parse(atob(segment)) yields for it.                           *)
(***************************************************************************)
TokAlice == <<"h", ".", "a", ".", "s">>      \* {sub: alice, roles: [Student], exp: 1}
TokBob == <<"h", ".", "b", ".", "s">>        \* {sub: bob, roles: Teacher, exp: 2}
TokNoClaims == <<"h", ".", "m", ".", "s">>   \* {} : JSON object without claims
TokJsonNull == <<"h", ".", "n", ".", "s">>   \* the JSON literal null
TokNotJson == <<"h", ".", "j", ".", "s">>    \* base64 of text that is not JSON
TokNotBase64 == <<"h", ".", "!", ".", "s">>  \* not base64
TokEmptyPayload == <<"h", ".", ".", "s">>    \* three segments, empty payload
TokTwoSegments == <<"h", ".", "a">>
TokFourSegments == <<"h", ".", "a", ".", "s", ".", "s">>
TokEmpty == <<>>

WellFormedTokens == {TokAlice, TokBob, TokNoClaims, TokJsonNull, TokNotJson,
                     TokNotBase64, TokEmptyPayload}
MalformedTokens == {TokTwoSegments, TokFourSegments, TokEmpty, UndefinedString}
RawStrings == WellFormedTokens \cup MalformedTokens

\* the token strings a login response carries in the state machine
IssuedTokens == {TokAlice, TokBob, TokNoClaims, TokNotJson, TokNotBase64,
                 TokTwoSegments, TokEmpty}

Roles == {"Student", "Teacher"}

NoPayload == [isObject |-> FALSE, sub |-> Null, exp |-> Null,
              rolesIsArray |-> FALSE, rolesArray |-> <<>>, rolesValue |-> "undefined"]

\* JSON.parse(atob(segment)): [threw, payload]
JsonParseAtob(seg) ==
    IF seg = <<"a">> THEN
        [threw |-> "none",
         payload |-> [isObject |-> TRUE, sub |-> Some("alice"), exp |-> Some(1),
                      rolesIsArray |-> TRUE, rolesArray |-> <<"Student">>,
                      rolesValue |-> "undefined"]]
    ELSE IF seg = <<"b">> THEN
        [threw |-> "none",
         payload |-> [isObject |-> TRUE, sub |-> Some("bob"), exp |-> Some(2),
                      rolesIsArray |-> FALSE, rolesArray |-> <<>>,
                      rolesValue |-> "Teacher"]]
    ELSE IF seg = <<"m">> THEN
        [threw |-> "none",
         payload |-> [isObject |-> TRUE, sub |-> Null, exp |-> Null,
                      rolesIsArray |-> FALSE, rolesArray |-> <<>>,
                      rolesValue |-> "undefined"]]
    ELSE IF seg = <<"n">> THEN
        [threw |-> "none", payload |-> NoPayload]
    ELSE IF seg = <<"!">> THEN
        [threw |-> "InvalidCharacterError", payload |-> NoPayload]
    ELSE
        [threw |-> "SyntaxError", payload |-> NoPayload]

(***************************************************************************)
(* AuthService: private helpers.                                           *)
(***************************************************************************)
\* tokenIsJwtFormat accepting three or more segments
tokenIsJwtFormatAtLeast(rawToken) ==
    IF rawToken = Null \/ rawToken = Some(<<>>) THEN FALSE
    ELSE IF Len(rawToken[1]) = 0 THEN FALSE
    ELSE IF Len(Split(rawToken[1])) < JwtSegments THEN FALSE
    ELSE TRUE

\* tokenIsJwtFormat(rawToken): rawToken is an option of a raw string
tokenIsJwtFormat(rawToken) ==
    IF rawToken = Null \/ rawToken = Some(<<>>) THEN FALSE    \* !rawToken
    ELSE IF Len(rawToken[1]) = 0 THEN FALSE                   \* !rawToken.length
    ELSE IF Len(Split(rawToken[1])) # JwtSegments THEN FALSE
    ELSE TRUE

\* getRawToken consulting local storage before session storage
getRawTokenLocalFirst(ss, ls) ==
    IF ls # Null /\ ls # Some(<<>>) /\ tokenIsJwtFormat(ls) THEN ls
    ELSE IF ss # Null /\ ss # Some(<<>>) /\ tokenIsJwtFormat(ss) THEN ss
    ELSE Null

\* getRawToken(): session storage first, then local storage
getRawToken(ss, ls) ==
    IF ss # Null /\ ss # Some(<<>>) /\ tokenIsJwtFormat(ss) THEN ss
    ELSE IF ls # Null /\ ls # Some(<<>>) /\ tokenIsJwtFormat(ls) THEN ls
    ELSE Null

\* new Date(0).setUTCSeconds(payload.exp).getTime(): NaN for a missing exp
ExpTime(exp) ==
    IF exp = Null THEN [nan |-> TRUE, ms |-> 0]
    ELSE [nan |-> FALSE, ms |-> exp[1] * MillisPerSecond]

NoToken == [sub |-> Null, roles |-> <<>>, exp |-> [nan |-> TRUE, ms |-> 0]]

\* the roles normalisation without the wrapping of a single role
NormalizeRolesNeverWraps(payload) == payload.rolesArray

\* the roles normalisation of parseToken
NormalizeRoles(payload) ==
    IF payload.rolesIsArray THEN payload.rolesArray
    ELSE <<payload.rolesValue>>

\* parseToken(rawToken), called with the flag at `auth`:
\* [threw, token, authenticated, emitted]
parseToken(rawToken, auth) ==
    LET failed(err) == [threw |-> err, token |-> NoToken,
                        authenticated |-> auth, emitted |-> <<>>]
    IN  IF rawToken = Null THEN failed("TypeError")            \* null.split
        ELSE
          LET segs == Split(rawToken[1])
          IN  IF Len(segs) < 2 THEN failed("InvalidCharacterError")  \* atob(undefined)
              ELSE
                LET parsed == JsonParseAtob(segs[2])
                IN  IF parsed.threw # "none" THEN failed(parsed.threw)
                    ELSE IF ~parsed.payload.isObject THEN failed("TypeError")  \* null.exp
                    ELSE [threw |-> "none",
                          token |-> [sub |-> parsed.payload.sub,
                                     roles |-> NormalizeRoles(parsed.payload),
                                     exp |-> ExpTime(parsed.payload.exp)],
                          authenticated |-> TRUE,
                          emitted |-> <<TRUE>>]

\* tokenIsExpired comparing with <= 0 in place of < 0
tokenIsExpiredAtBoundary(parsedToken, nowInMilli) ==
    IF parsedToken.exp.nan THEN FALSE
    ELSE parsedToken.exp.ms - nowInMilli <= 0

\* tokenIsExpired(parsedToken) at the instant nowInMilli
tokenIsExpired(parsedToken, nowInMilli) ==
    IF parsedToken.exp.nan THEN FALSE                          \* NaN < 0
    ELSE parsedToken.exp.ms - nowInMilli < 0

\* storeToken with the scopes of the two branches exchanged
storeTokenSwapped(responseBody, remember, ss, ls, auth) ==
    IF responseBody.isNull THEN
        [threw |-> "TypeError", ss |-> ss, ls |-> ls,
         authenticated |-> auth, emitted |-> <<>>]
    ELSE
        LET stored == IF responseBody.token = Null THEN Some(UndefinedString)
                      ELSE responseBody.token
        IN  IF remember
            THEN [threw |-> "none", ss |-> stored, ls |-> Null,
                  authenticated |-> TRUE, emitted |-> <<TRUE>>]
            ELSE [threw |-> "none", ss |-> Null, ls |-> stored,
                  authenticated |-> TRUE, emitted |-> <<TRUE>>]

\* storeToken without the removeItem of the other scope
storeTokenNoClear(responseBody, remember, ss, ls, auth) ==
    IF responseBody.isNull THEN
        [threw |-> "TypeError", ss |-> ss, ls |-> ls,
         authenticated |-> auth, emitted |-> <<>>]
    ELSE
        LET stored == IF responseBody.token = Null THEN Some(UndefinedString)
                      ELSE responseBody.token
        IN  IF remember
            THEN [threw |-> "none", ss |-> ss, ls |-> stored,
                  authenticated |-> TRUE, emitted |-> <<TRUE>>]
            ELSE [threw |-> "none", ss |-> stored, ls |-> ls,
                  authenticated |-> TRUE, emitted |-> <<TRUE>>]

\* storeToken(responseBody, remember): [threw, ss, ls, authenticated, emitted]
storeToken(responseBody, remember, ss, ls, auth) ==
    IF responseBody.isNull THEN                                \* null.token
        [threw |-> "TypeError", ss |-> ss, ls |-> ls,
         authenticated |-> auth, emitted |-> <<>>]
    ELSE
        LET stored == IF responseBody.token = Null THEN Some(UndefinedString)
                      ELSE responseBody.token
        IN  IF remember
            THEN [threw |-> "none", ss |-> Null, ls |-> stored,
                  authenticated |-> TRUE, emitted |-> <<TRUE>>]
            ELSE [threw |-> "none", ss |-> stored, ls |-> Null,
                  authenticated |-> TRUE, emitted |-> <<TRUE>>]

\* handleError passing the cause through to the caller
handleErrorLeaky(cause) == cause

\* handleError(error): the message of the returned throwError
handleError(cause) == LOGIN_ERROR_MSG

\* getRegistrationUrlGivenRole with the teacher endpoint for the Teacher role
getRegistrationUrlGivenRolePerRole(role) ==
    IF role = "Teacher" THEN TEACHER_REGISTER_URL
    ELSE STUDENT_REGISTER_URL

\* getRegistrationUrlGivenRole(role)
getRegistrationUrlGivenRole(role) ==
    IF role = "Student" THEN STUDENT_REGISTER_URL
    ELSE IF role = "Teacher" THEN STUDENT_REGISTER_URL
    ELSE STUDENT_REGISTER_URL

(***************************************************************************)
(* AuthService: public queries, as functions of the state they read.       *)
(* Each yields [ret, threw, authenticated, emitted, parsed]: the returned  *)
(* value, the error thrown ("none" if none), the flag afterwards, the      *)
(* values broadcast on authenticationStatus and the arguments parseToken   *)
(* was called with.                                                        *)
(***************************************************************************)
isAuthenticated(ss, ls, auth, nowInMilli) ==
    IF auth THEN
        [ret |-> "true", threw |-> "none", authenticated |-> auth,
         emitted |-> <<>>, parsed |-> <<>>]
    ELSE
        LET rawToken == getRawToken(ss, ls)
        IN  IF rawToken # Null THEN
                LET p == parseToken(rawToken, auth)
                IN  IF p.threw # "none" THEN
                        [ret |-> "none", threw |-> p.threw,
                         authenticated |-> p.authenticated,
                         emitted |-> p.emitted, parsed |-> <<rawToken>>]
                    ELSE
                        [ret |-> BoolStr(~tokenIsExpired(p.token, nowInMilli)),
                         threw |-> "none", authenticated |-> p.authenticated,
                         emitted |-> p.emitted, parsed |-> <<rawToken>>]
            ELSE
                [ret |-> "false", threw |-> "none", authenticated |-> auth,
                 emitted |-> <<>>, parsed |-> <<>>]

\* element membership of Array.prototype.includes
Includes(seq, x) == \E i \in 1..Len(seq) : seq[i] = x

\* isInRole(roleName)
isInRole(roleName, ss, ls, auth, nowInMilli) ==
    LET a == isAuthenticated(ss, ls, auth, nowInMilli)
    IN  IF a.threw # "none" THEN a
        ELSE IF a.ret = "true" THEN
            LET rawToken == getRawToken(ss, ls)
                p == parseToken(rawToken, a.authenticated)
            IN  [ret |-> IF p.threw # "none" THEN "none"
                         ELSE BoolStr(Includes(p.token.roles, roleName)),
                 threw |-> p.threw,
                 authenticated |-> p.authenticated,
                 emitted |-> a.emitted \o p.emitted,
                 parsed |-> Append(a.parsed, rawToken)]
        ELSE [a EXCEPT !.ret = "false"]

\* getUsername()
getUsername(ss, ls, auth, nowInMilli) ==
    LET a == isAuthenticated(ss, ls, auth, nowInMilli)
    IN  IF a.threw # "none" THEN a
        ELSE IF a.ret = "true" THEN
            LET rawToken == getRawToken(ss, ls)
                p == parseToken(rawToken, a.authenticated)
            IN  [ret |-> IF p.threw # "none" THEN "none"
                         ELSE IF p.token.sub = Null THEN "undefined"
                         ELSE p.token.sub[1],
                 threw |-> p.threw,
                 authenticated |-> p.authenticated,
                 emitted |-> a.emitted \o p.emitted,
                 parsed |-> Append(a.parsed, rawToken)]
        ELSE [a EXCEPT !.ret = "null"]

(***************************************************************************)
(* The record of an operation: its name and argument, the value it         *)
(* returned or delivered (ret), the error it threw to its caller (threw),  *)
(* whether an observable delivered ret on its error channel (errored),     *)
(* the broadcasts it emitted, the arguments it passed to parseToken, the   *)
(* flag just before it, the route it navigated to, the URL it posted to    *)
(* and the token field of the response body it handled.                    *)
(***************************************************************************)
Op(name, arg, ret, threw, errored, emitted, parsed, nav, url, token) ==
    [name |-> name, arg |-> arg, ret |-> ret, threw |-> threw,
     errored |-> errored, emitted |-> emitted, parsed |-> parsed,
     preAuth |-> authenticated, nav |-> nav, url |-> url, token |-> token]

QueryOp(name, arg, r, nav) ==
    Op(name, arg, r.ret, r.threw, FALSE, r.emitted, r.parsed, nav, "none", Null)

\* new Date().getTime()
nowInMilli == clock * MillisPerSecond

RememberValues == BOOLEAN
FailureCauses == {"401", "500", "network"}
RoleValues == Roles \cup {"student"}
ResponseBodies ==
    {[isNull |-> FALSE, token |-> Some(t)] : t \in IssuedTokens}
        \cup {[isNull |-> FALSE, token |-> Null], [isNull |-> TRUE, token |-> Null]}

Remove(seq, i) == SubSeq(seq, 1, i - 1) \o SubSeq(seq, i + 1, Len(seq))

\* what a scope can hold when the application starts: nothing, or what an
\* earlier login stored
StoredValues == {Null} \cup {Some(t) : t \in IssuedTokens \cup {UndefinedString}}

Init ==
    /\ sessionStorage \in StoredValues
    /\ localStorage \in StoredValues
    /\ sessionStorage = Null \/ localStorage = Null
    /\ authenticated = FALSE
    /\ clock \in 0..MaxClock
    /\ loginPending = <<>>
    /\ registerPending = <<>>
    /\ lastOp = [name |-> "init", arg |-> "none", ret |-> "none", threw |-> "none",
                 errored |-> FALSE, emitted |-> <<>>, parsed |-> <<>>,
                 preAuth |-> FALSE, nav |-> "none", url |-> "none", token |-> Null]

\* time passes
Tick ==
    /\ clock < MaxClock
    /\ clock' = clock + 1
    /\ UNCHANGED <<sessionStorage, localStorage, authenticated, loginPending,
                   registerPending, lastOp>>

\* isAuthenticated() that removes the stored entries when it answers false
IsAuthenticatedPurges ==
    LET r == isAuthenticated(sessionStorage, localStorage, authenticated, nowInMilli)
    IN  /\ authenticated' = r.authenticated
        /\ lastOp' = QueryOp("isAuthenticated", "none", r, "none")
        /\ sessionStorage' = IF r.ret = "false" THEN Null ELSE sessionStorage
        /\ localStorage' = IF r.ret = "false" THEN Null ELSE localStorage
        /\ UNCHANGED <<clock, loginPending, registerPending>>

\* AuthService.isAuthenticated()
IsAuthenticated ==
    LET r == isAuthenticated(sessionStorage, localStorage, authenticated, nowInMilli)
    IN  /\ authenticated' = r.authenticated
        /\ lastOp' = QueryOp("isAuthenticated", "none", r, "none")
        /\ UNCHANGED <<sessionStorage, localStorage, clock, loginPending, registerPending>>

\* AuthGuard.canActivate() without the redirect of the unauthenticated branch
CanActivateNoRedirect ==
    LET r == isAuthenticated(sessionStorage, localStorage, authenticated, nowInMilli)
    IN  /\ authenticated' = r.authenticated
        /\ lastOp' = QueryOp("canActivate", "none", r, "none")
        /\ UNCHANGED <<sessionStorage, localStorage, clock, loginPending, registerPending>>

\* AuthGuard.canActivate()
CanActivate ==
    LET r == isAuthenticated(sessionStorage, localStorage, authenticated, nowInMilli)
        nav == IF r.threw = "none" /\ r.ret # "true" THEN "/login" ELSE "none"
    IN  /\ authenticated' = r.authenticated
        /\ lastOp' = QueryOp("canActivate", "none", r, nav)
        /\ UNCHANGED <<sessionStorage, localStorage, clock, loginPending, registerPending>>

\* AuthService.isInRole(roleName)
IsInRole ==
    \E roleName \in Roles :
        LET r == isInRole(roleName, sessionStorage, localStorage, authenticated, nowInMilli)
        IN  /\ authenticated' = r.authenticated
            /\ lastOp' = QueryOp("isInRole", roleName, r, "none")
                /\ UNCHANGED <<sessionStorage, localStorage, clock, loginPending,
                           registerPending>>

\* AuthService.getUsername()
GetUsername ==
    LET r == getUsername(sessionStorage, localStorage, authenticated, nowInMilli)
    IN  /\ authenticated' = r.authenticated
        /\ lastOp' = QueryOp("getUsername", "none", r, "none")
        /\ UNCHANGED <<sessionStorage, localStorage, clock, loginPending, registerPending>>

\* logout without the reset of the flag
logoutKeepsFlag ==
    [ss |-> Null, ls |-> Null, authenticated |-> authenticated, emitted |-> <<FALSE>>]

\* logout without the removeItem on localStorage
logoutKeepsLocal ==
    [ss |-> Null, ls |-> localStorage, authenticated |-> FALSE, emitted |-> <<FALSE>>]

\* AuthService.logout(): [ss, ls, authenticated, emitted]
logout ==
    [ss |-> Null, ls |-> Null, authenticated |-> FALSE, emitted |-> <<FALSE>>]

\* HomeComponent.logout(): AuthService.logout(), then the redirect to login
Logout ==
    LET r == logout
    IN  /\ sessionStorage' = r.ss
        /\ localStorage' = r.ls
        /\ authenticated' = r.authenticated
        /\ lastOp' = Op("logout", "none", "none", "none", FALSE, r.emitted, <<>>,
                        "/login", "none", Null)
        /\ UNCHANGED <<clock, loginPending, registerPending>>

\* AuthService.login(user, remember): the request is posted
LoginSubmit ==
    \E remember \in RememberValues :
        /\ Len(loginPending) < MaxPending
        /\ loginPending' = Append(loginPending, [remember |-> remember])
        /\ UNCHANGED <<sessionStorage, localStorage, authenticated, clock,
                       registerPending, lastOp>>

\* a 2xx response to a login: tap(storeToken), map, catchError
LoginNext ==
    \E i \in 1..Len(loginPending), body \in ResponseBodies :
        LET remember == loginPending[i].remember
            s == storeToken(body, remember, sessionStorage, localStorage, authenticated)
            ok == s.threw = "none"
        IN  /\ sessionStorage' = s.ss
            /\ localStorage' = s.ls
            /\ authenticated' = s.authenticated
            /\ loginPending' = Remove(loginPending, i)
            /\ lastOp' = Op("loginNext", BoolStr(remember),
                            IF ok THEN LOGIN_SUCCESS_MSG ELSE handleError(s.threw),
                            "none", ~ok, s.emitted, <<>>,
                            IF ok THEN "/home" ELSE "none", "none", body.token)
                /\ UNCHANGED <<clock, registerPending>>

\* a non-2xx response or a transport failure of a login: catchError
LoginError ==
    \E i \in 1..Len(loginPending), cause \in FailureCauses :
        /\ loginPending' = Remove(loginPending, i)
        /\ lastOp' = Op("loginError", cause, handleError(cause), "none", TRUE,
                        <<>>, <<>>, "none", "none", Null)
        /\ UNCHANGED <<sessionStorage, localStorage, authenticated, clock,
                       registerPending>>

\* AuthService.register(user, role): the request is posted
RegisterSubmit ==
    \E role \in RoleValues :
        /\ Len(registerPending) < MaxRegisterPending
        /\ registerPending' = Append(registerPending,
                                     [url |-> getRegistrationUrlGivenRole(role)])
        /\ UNCHANGED <<sessionStorage, localStorage, authenticated, clock,
                       loginPending, lastOp>>

\* a 2xx response to a register that also signs the user in
RegisterNextAuthenticates ==
    \E i \in 1..Len(registerPending) :
        /\ registerPending' = Remove(registerPending, i)
        /\ authenticated' = TRUE
        /\ lastOp' = Op("registerNext", "none", REGISTER_SUCCESS_MSG, "none", FALSE,
                        <<TRUE>>, <<>>, "/login", registerPending[i].url, Null)
        /\ UNCHANGED <<sessionStorage, localStorage, clock, loginPending>>

\* a 2xx response to a register: map
RegisterNext ==
    \E i \in 1..Len(registerPending) :
        /\ registerPending' = Remove(registerPending, i)
        /\ lastOp' = Op("registerNext", "none", REGISTER_SUCCESS_MSG, "none", FALSE,
                        <<>>, <<>>, "/login", registerPending[i].url, Null)
        /\ UNCHANGED <<sessionStorage, localStorage, authenticated, clock, loginPending>>

\* a non-2xx response or a transport failure of a register: catchError
RegisterError ==
    \E i \in 1..Len(registerPending), cause \in FailureCauses :
        /\ registerPending' = Remove(registerPending, i)
        /\ lastOp' = Op("registerError", cause, handleError(cause), "none", TRUE,
                        <<>>, <<>>, "none", registerPending[i].url, Null)
        /\ UNCHANGED <<sessionStorage, localStorage, authenticated, clock, loginPending>>

Next ==
    \/ Tick
    \/ IsAuthenticated
    \/ CanActivate
    \/ IsInRole
    \/ GetUsername
    \/ Logout
    \/ LoginSubmit
    \/ LoginNext
    \/ LoginError
    \/ RegisterSubmit
    \/ RegisterNext
    \/ RegisterError

Spec == Init /\ [][Next]_vars

(***************************************************************************)
(* Vocabulary of the properties.                                           *)
(***************************************************************************)
QueryNames == {"isAuthenticated", "canActivate", "isInRole", "getUsername"}

\* a three-segment raw string
ThreeSegments(raw) == Len(Split(raw)) = 3

\* load() yields a well-formed token that decodes and is not expired at `at`
HoldsValidToken(ss, ls, at) ==
    LET raw == getRawToken(ss, ls)
    IN  /\ raw # Null
        /\ LET p == parseToken(raw, FALSE)
           IN  p.threw = "none" /\ ~tokenIsExpired(p.token, at)

\* load() yields a well-formed token that decodes and is expired at `at`
HoldsExpiredToken(ss, ls, at) ==
    LET raw == getRawToken(ss, ls)
    IN  /\ raw # Null
        /\ LET p == parseToken(raw, FALSE)
           IN  p.threw = "none" /\ tokenIsExpired(p.token, at)

\* load() yields a three-segment token whose payload does not decode to an
\* object carrying the exp claim
HoldsUndecodableToken(ss, ls) ==
    LET raw == getRawToken(ss, ls)
    IN  /\ raw # Null
        /\ LET parsed == JsonParseAtob(Split(raw[1])[2])
           IN  \/ parsed.threw # "none"
               \/ ~parsed.payload.isObject
               \/ parsed.payload.exp = Null

(***************************************************************************)
(* C1: isAuthenticated() returns true at once when the flag is cached      *)
(* true; with the flag false it returns true, sets the flag and emits one  *)
(* broadcast when load() yields a well-formed, unexpired token; when no    *)
(* well-formed token is stored or the stored token is expired it returns   *)
(* false, leaves the flag false and emits nothing.                         *)
(***************************************************************************)
C1_IsAuthenticatedContract ==
    [][IsAuthenticated =>
        IF authenticated THEN
            /\ lastOp'.ret = "true"
            /\ lastOp'.emitted = <<>>
            /\ authenticated'
        ELSE IF HoldsValidToken(sessionStorage, localStorage, nowInMilli) THEN
            /\ lastOp'.ret = "true"
            /\ lastOp'.emitted = <<TRUE>>
            /\ authenticated'
        ELSE IF \/ getRawToken(sessionStorage, localStorage) = Null
                \/ HoldsExpiredToken(sessionStorage, localStorage, nowInMilli) THEN
            /\ lastOp'.ret = "false"
            /\ lastOp'.emitted = <<>>
            /\ ~authenticated'
        ELSE TRUE]_vars

(***************************************************************************)
(* A fresh session whose storage holds only an expired token, in which no  *)
(* login succeeds: the queries, failing logins and the passing of time.    *)
(***************************************************************************)
InitExpired ==
    /\ Init
    /\ HoldsExpiredToken(sessionStorage, localStorage, nowInMilli)

NextExpired ==
    \/ Tick
    \/ IsAuthenticated
    \/ CanActivate
    \/ IsInRole
    \/ GetUsername
    \/ LoginSubmit
    \/ LoginError

SpecExpired == InitExpired /\ [][NextExpired]_vars

(***************************************************************************)
(* C2: from a fresh session whose storage holds only an expired token,     *)
(* with no login succeeding, every isAuthenticated(), canActivate() and    *)
(* isInRole() returns false and every getUsername() returns null.          *)
(***************************************************************************)
C2_ExpiredStaysUnauthenticated ==
    lastOp.name \in QueryNames =>
        /\ lastOp.threw = "none"
        /\ lastOp.ret = IF lastOp.name = "getUsername" THEN "null" ELSE "false"

(***************************************************************************)
(* C3, as stated: whenever the cached flag is true, load() yields a        *)
(* well-formed token that is not expired at the current time.              *)
(***************************************************************************)
C3_FlagImpliesValidToken ==
    authenticated => HoldsValidToken(sessionStorage, localStorage, nowInMilli)

(***************************************************************************)
(* C3, amended: whenever the cached flag is true, a storage scope holds    *)
(* an entry (the one a login stored or a decode found); the entry may be   *)
(* expired at the current time, or malformed.                              *)
(***************************************************************************)
C3_FlagImpliesStoredEntry ==
    authenticated => (sessionStorage # Null \/ localStorage # Null)

\* the flag is cached true over a token that has expired
C3_Witness ==
    /\ authenticated
    /\ HoldsExpiredToken(sessionStorage, localStorage, nowInMilli)
    /\ lastOp.name = "isAuthenticated"
    /\ lastOp.preAuth

(***************************************************************************)
(* C4: after logout() both scopes are empty, the flag is false and false   *)
(* was broadcast; the isAuthenticated() that follows returns false.        *)
(***************************************************************************)
C4_LogoutClears ==
    /\ [](lastOp.name = "logout" =>
            /\ sessionStorage = Null
            /\ localStorage = Null
            /\ ~authenticated
            /\ lastOp.emitted = <<FALSE>>)
    /\ [][lastOp.name = "logout" /\ IsAuthenticated =>
            /\ lastOp'.ret = "false"
            /\ lastOp'.threw = "none"
            /\ ~authenticated']_vars

\* logout() has ended a session that was authenticated
C4_Witness ==
    /\ lastOp.name = "logout"
    /\ lastOp.preAuth
    /\ lastOp.emitted = <<FALSE>>

(***************************************************************************)
(* C5: a successful login response carrying a well-formed token writes     *)
(* the token to the scope remember selects and leaves the other scope      *)
(* empty, yields the success message and broadcasts true exactly once;     *)
(* the isAuthenticated() that follows returns true and broadcasts nothing. *)
(***************************************************************************)
C5_LoginSuccess ==
    /\ [](lastOp.name = "loginNext" /\ tokenIsJwtFormat(lastOp.token) =>
            /\ lastOp.arg = "true" =>
                    localStorage = lastOp.token /\ sessionStorage = Null
            /\ lastOp.arg = "false" =>
                    sessionStorage = lastOp.token /\ localStorage = Null
            /\ lastOp.ret = "login success"
            /\ ~lastOp.errored
            /\ lastOp.emitted = <<TRUE>>
            /\ authenticated)
    /\ [][lastOp.name = "loginNext" /\ tokenIsJwtFormat(lastOp.token)
            /\ IsAuthenticated =>
            /\ lastOp'.ret = "true"
            /\ lastOp'.emitted = <<>>]_vars

\* a login with remember set has stored a well-formed token
C5_Witness ==
    /\ lastOp.name = "loginNext"
    /\ lastOp.arg = "true"
    /\ tokenIsJwtFormat(lastOp.token)
    /\ localStorage = lastOp.token

(***************************************************************************)
(* C6: a failed login (a non-2xx response or a transport failure) leaves   *)
(* both scopes and the flag as they were, broadcasts nothing and delivers  *)
(* the fixed message "Invalid Username or Password" as the error.          *)
(***************************************************************************)
C6_LoginFailure ==
    [][Len(loginPending') < Len(loginPending) /\ lastOp'.name = "loginError" =>
        /\ sessionStorage' = sessionStorage
        /\ localStorage' = localStorage
        /\ authenticated' = authenticated
        /\ lastOp'.emitted = <<>>
        /\ lastOp'.errored
        /\ lastOp'.ret = "Invalid Username or Password"]_vars

\* a login has failed on a transport failure while a token was stored
C6_Witness ==
    /\ lastOp.name = "loginError"
    /\ lastOp.arg = "network"
    /\ lastOp.ret = "Invalid Username or Password"
    /\ sessionStorage # Null
    /\ authenticated

(***************************************************************************)
(* C7: parseToken is only ever called with a string that passed            *)
(* tokenIsJwtFormat: never with null, never with a string whose segment    *)
(* count is not 3.                                                         *)
(***************************************************************************)
C7_DecodeOnlyWellFormed ==
    \A i \in 1..Len(lastOp.parsed) :
        /\ lastOp.parsed[i] # Null
        /\ ThreeSegments(lastOp.parsed[i][1])

(***************************************************************************)
(* C8: when storage holds a three-segment token whose payload cannot be    *)
(* decoded, the queries terminate normally and report "not                 *)
(* authenticated": false, or null for getUsername().                       *)
(***************************************************************************)
C8_DecodeFailuresContained ==
    lastOp.name \in QueryNames /\ HoldsUndecodableToken(sessionStorage, localStorage) =>
        /\ lastOp.threw = "none"
        /\ lastOp.ret = IF lastOp.name = "getUsername" THEN "null" ELSE "false"

(***************************************************************************)
(* C9: the session scope and the persistent scope are never both           *)
(* non-empty, and right after a login has stored its token exactly one     *)
(* scope holds it.                                                         *)
(***************************************************************************)
C9_AtMostOneScope ==
    /\ ~(sessionStorage # Null /\ localStorage # Null)
    /\ lastOp.name = "loginNext" /\ ~lastOp.errored =>
            \/ sessionStorage # Null /\ localStorage = Null
            \/ sessionStorage = Null /\ localStorage # Null

\* a second login, without remember, has moved the token to the session scope
C9_Witness ==
    /\ lastOp.name = "loginNext"
    /\ lastOp.arg = "false"
    /\ lastOp.preAuth
    /\ sessionStorage = Some(TokBob)
    /\ localStorage = Null

(***************************************************************************)
(* C10: the broadcast channel emits only on transitions: every value an    *)
(* operation emits differs from the flag's value just before it.           *)
(***************************************************************************)
C10_EmitsOnlyOnTransitions ==
    \A i \in 1..Len(lastOp.emitted) : lastOp.emitted[i] # lastOp.preAuth

(***************************************************************************)
(* C11: isInRole(role) returns true if and only if a well-formed,          *)
(* unexpired token is held and its decoded roles contain role, and two     *)
(* consecutive calls with the same role give the same answer.              *)
(***************************************************************************)
C11_IsInRoleIffValidAndContains ==
    [][IsInRole =>
        /\ lastOp'.ret = "true" <=>
              /\ HoldsValidToken(sessionStorage, localStorage, nowInMilli)
              /\ Includes(parseToken(getRawToken(sessionStorage, localStorage),
                                     FALSE).token.roles,
                          lastOp'.arg)
        /\ lastOp.name = "isInRole" /\ lastOp.arg = lastOp'.arg
              /\ lastOp.threw = "none" /\ lastOp'.threw = "none" =>
                  lastOp'.ret = lastOp.ret]_vars

(***************************************************************************)
(* The private helpers applied directly to inputs drawn from bounded       *)
(* sets.  From the initial state one step draws the inputs, puts the       *)
(* storage the helper reads into the two scopes and records the            *)
(* application in lastOp.                                                  *)
(***************************************************************************)
MaxExpSeconds == 3
MaxNowMillis == 3000
MaxRawLen == 6

\* the characters of the raw strings drawn for tokenIsJwtFormat
RawChars == {"h", "."}

\* every string over RawChars of length at most n
RECURSIVE StringsUpTo(_)
StringsUpTo(n) ==
    IF n = 0 THEN {<<>>}
    ELSE LET shorter == StringsUpTo(n - 1)
         IN  shorter \cup {Append(s, c) : s \in shorter, c \in RawChars}

HelperOp(name, input, ret) == [name |-> name, input |-> input, ret |-> ret]

InitHelpers ==
    /\ sessionStorage = Null
    /\ localStorage = Null
    /\ authenticated = FALSE
    /\ clock = 0
    /\ loginPending = <<>>
    /\ registerPending = <<>>
    /\ lastOp = HelperOp("init", <<>>, "none")

\* tokenIsExpired(parsedToken) for a token with expiry exp, at the instant now
ApplyTokenIsExpired ==
    \E exp \in {Null} \cup {Some(e) : e \in 0..MaxExpSeconds}, now \in 0..MaxNowMillis :
        /\ lastOp.name = "init"
        /\ lastOp' = HelperOp("tokenIsExpired", [exp |-> exp, now |-> now],
                              BoolStr(tokenIsExpired([sub |-> Null, roles |-> <<>>,
                                                      exp |-> ExpTime(exp)], now)))
        /\ sessionStorage' = Null
        /\ localStorage' = Null
        /\ UNCHANGED <<authenticated, clock, loginPending, registerPending>>

MaxRolesLen == 2

\* every sequence over Roles of length at most n
RECURSIVE RoleArraysUpTo(_)
RoleArraysUpTo(n) ==
    IF n = 0 THEN {<<>>}
    ELSE LET shorter == RoleArraysUpTo(n - 1)
         IN  shorter \cup {Append(s, r) : s \in shorter, r \in Roles}

\* what either storage scope can hold: nothing, or any raw string
HeldValues == {Null} \cup {Some(s) : s \in RawStrings}

\* getRawToken() with the two storage scopes holding ss and ls
ApplyGetRawToken ==
    \E ss \in HeldValues, ls \in HeldValues :
        /\ lastOp.name = "init"
        /\ sessionStorage' = ss
        /\ localStorage' = ls
        /\ lastOp' = HelperOp("getRawToken", <<>>, getRawToken(ss, ls))
        /\ UNCHANGED <<authenticated, clock, loginPending, registerPending>>

\* storeToken(responseBody, remember) on storage holding ss and ls, then
\* getRawToken()
ApplyStoreTokenGetRawToken ==
    \E t \in WellFormedTokens, remember \in BOOLEAN,
       ss \in HeldValues, ls \in HeldValues :
        LET s == storeToken([isNull |-> FALSE, token |-> Some(t)], remember,
                            ss, ls, authenticated)
        IN  /\ lastOp.name = "init"
            /\ sessionStorage' = s.ss
            /\ localStorage' = s.ls
            /\ authenticated' = s.authenticated
            /\ lastOp' = HelperOp("storeToken;getRawToken",
                                  [token |-> t, remember |-> remember,
                                   ss |-> ss, ls |-> ls],
                                  getRawToken(s.ss, s.ls))
            /\ UNCHANGED <<clock, loginPending, registerPending>>

\* tokenIsJwtFormat(rawToken)
ApplyTokenIsJwtFormat ==
    \E rawToken \in {Null} \cup {Some(s) : s \in StringsUpTo(MaxRawLen)} :
        /\ lastOp.name = "init"
        /\ lastOp' = HelperOp("tokenIsJwtFormat", rawToken,
                              BoolStr(tokenIsJwtFormat(rawToken)))
        /\ sessionStorage' = Null
        /\ localStorage' = Null
        /\ UNCHANGED <<authenticated, clock, loginPending, registerPending>>

\* getRegistrationUrlGivenRole(role)
ApplyGetRegistrationUrlGivenRole ==
    \E role \in RoleValues :
        /\ lastOp.name = "init"
        /\ lastOp' = HelperOp("getRegistrationUrlGivenRole", role,
                              getRegistrationUrlGivenRole(role))
        /\ sessionStorage' = Null
        /\ localStorage' = Null
        /\ UNCHANGED <<authenticated, clock, loginPending, registerPending>>

\* the decoded payloads the roles normalisation is applied to: the roles
\* claim is an array of roles, a single role, or missing
RolesPayloads ==
    {[isObject |-> TRUE, sub |-> Some("alice"), exp |-> Some(1),
      rolesIsArray |-> TRUE, rolesArray |-> a, rolesValue |-> "undefined"] :
        a \in RoleArraysUpTo(MaxRolesLen)}
    \cup
    {[isObject |-> TRUE, sub |-> Some("bob"), exp |-> Some(2),
      rolesIsArray |-> FALSE, rolesArray |-> <<>>, rolesValue |-> v] :
        v \in Roles \cup {"undefined"}}

\* the roles normalisation of parseToken on a decoded payload
ApplyNormalizeRoles ==
    \E payload \in RolesPayloads :
        /\ lastOp.name = "init"
        /\ lastOp' = HelperOp("normalizeRoles", payload, NormalizeRoles(payload))
        /\ sessionStorage' = Null
        /\ localStorage' = Null
        /\ UNCHANGED <<authenticated, clock, loginPending, registerPending>>

NextHelpers ==
    \/ ApplyTokenIsExpired
    \/ ApplyGetRawToken
    \/ ApplyStoreTokenGetRawToken
    \/ ApplyTokenIsJwtFormat
    \/ ApplyGetRegistrationUrlGivenRole
    \/ ApplyNormalizeRoles

SpecHelpers == InitHelpers /\ [][NextHelpers]_vars

(***************************************************************************)
(* C12, as stated: tokenIsExpired is true if and only if the expiry is at  *)
(* or before now: a token whose expiry equals the current instant is       *)
(* expired.                                                                *)
(***************************************************************************)
C12_ExpiredAtOrBeforeNow ==
    lastOp.name = "tokenIsExpired" /\ lastOp.input.exp # Null =>
        (lastOp.ret = "true" <=>
            lastOp.input.exp[1] * 1000 <= lastOp.input.now)

(***************************************************************************)
(* C12, amended: tokenIsExpired is true if and only if the expiry is       *)
(* strictly before now: a token whose expiry equals the current instant    *)
(* is not expired.                                                         *)
(***************************************************************************)
C12_ExpiredStrictlyBeforeNow ==
    lastOp.name = "tokenIsExpired" /\ lastOp.input.exp # Null =>
        (lastOp.ret = "true" <=>
            lastOp.input.exp[1] * 1000 < lastOp.input.now)

\* tokenIsExpired has answered for an expiry equal to the current instant
C12_Witness ==
    /\ lastOp.name = "tokenIsExpired"
    /\ lastOp.input.exp = Some(2)
    /\ lastOp.input.now = 2000
    /\ lastOp.ret = "false"

(***************************************************************************)
(* C13: canActivate() returns exactly what isAuthenticated() returns and   *)
(* redirects to the login route if and only if it returns false; when it   *)
(* returns true it does not navigate.                                      *)
(***************************************************************************)
C13_GuardReturnsAndRedirects ==
    /\ [](lastOp.name = "canActivate" =>
            /\ lastOp.nav = "/login" <=> lastOp.ret = "false"
            /\ lastOp.ret = "true" => lastOp.nav = "none"
            /\ lastOp.nav \in {"none", "/login"})
    /\ [][lastOp'.name = "canActivate"
            /\ (lastOp' # lastOp \/ authenticated' # authenticated) =>
            LET r == isAuthenticated(sessionStorage, localStorage, authenticated,
                                     nowInMilli)
            IN  /\ lastOp'.ret = r.ret
                /\ lastOp'.threw = r.threw
                /\ authenticated' = r.authenticated]_vars

\* the guard has turned an unauthenticated user away to the login route
C13_Witness ==
    /\ lastOp.name = "canActivate"
    /\ lastOp.ret = "false"
    /\ lastOp.nav = "/login"
    /\ ~authenticated

\* the number of '.' separators of a raw string
Dots(raw) == Cardinality({i \in 1..Len(raw) : raw[i] = "."})

\* a held value that is a non-empty string with exactly two '.' separators
WellFormed(held) == held # Null /\ Len(held[1]) > 0 /\ Dots(held[1]) = 2

(***************************************************************************)
(* C14: getRawToken() consults session storage first and local storage     *)
(* second, and returns the first entry that is well formed, or null when   *)
(* neither is; it never returns a string that is not well formed.          *)
(***************************************************************************)
C14_LoadSessionFirstWellFormed ==
    lastOp.name = "getRawToken" =>
        /\ lastOp.ret = IF WellFormed(sessionStorage) THEN sessionStorage
                        ELSE IF WellFormed(localStorage) THEN localStorage
                        ELSE Null
        /\ lastOp.ret # Null => WellFormed(lastOp.ret)

\* both scopes hold a well-formed token, and the session one was returned
C14_Witness ==
    /\ lastOp.name = "getRawToken"
    /\ sessionStorage = Some(TokAlice)
    /\ localStorage = Some(TokBob)
    /\ lastOp.ret = Some(TokAlice)

\* a malformed session entry is skipped in favour of the local-storage one
C14_WitnessFallback ==
    /\ lastOp.name = "getRawToken"
    /\ sessionStorage = Some(TokFourSegments)
    /\ localStorage = Some(TokBob)
    /\ lastOp.ret = Some(TokBob)

(***************************************************************************)
(* C15: for every well-formed token t, either remember choice and any      *)
(* prior storage contents, storeToken(t, remember) followed by             *)
(* getRawToken() returns t, and the scope that was not chosen is empty.    *)
(***************************************************************************)
C15_SaveLoadRoundTrip ==
    lastOp.name = "storeToken;getRawToken" =>
        /\ lastOp.ret = Some(lastOp.input.token)
        /\ lastOp.input.remember =>
              sessionStorage = Null /\ localStorage = Some(lastOp.input.token)
        /\ ~lastOp.input.remember =>
              localStorage = Null /\ sessionStorage = Some(lastOp.input.token)

\* a remembered save over a session scope that held another well-formed token
C15_Witness ==
    /\ lastOp.name = "storeToken;getRawToken"
    /\ lastOp.input.remember
    /\ lastOp.input.ss = Some(TokAlice)
    /\ lastOp.input.token = TokBob
    /\ lastOp.ret = Some(TokBob)
    /\ sessionStorage = Null

(***************************************************************************)
(* C17: tokenIsJwtFormat(s) is true if and only if s is non-null,          *)
(* non-empty and splits on '.' into exactly three segments, that is, has   *)
(* exactly two '.' separators.                                             *)
(***************************************************************************)
C17_WellFormedIffThreeSegments ==
    lastOp.name = "tokenIsJwtFormat" =>
        (lastOp.ret = "true" <=>
            /\ lastOp.input # Null
            /\ Len(lastOp.input[1]) > 0
            /\ Dots(lastOp.input[1]) = 2)

\* a string of four segments is rejected
C17_Witness ==
    /\ lastOp.name = "tokenIsJwtFormat"
    /\ lastOp.input = Some(<<"h", ".", "h", ".", ".">>)
    /\ lastOp.ret = "false"

(***************************************************************************)
(* C18: the registration endpoint depends only on the role and is the      *)
(* student registration endpoint for every role, Teacher included; no      *)
(* registration goes to the teacher endpoint.                              *)
(***************************************************************************)
C18_EveryRoleRegistersAsStudent ==
    lastOp.name = "getRegistrationUrlGivenRole" =>
        /\ lastOp.ret = "https://groupgradingapi.azurewebsites.net/api/student/register"
        /\ lastOp.ret # TEACHER_REGISTER_URL

\* the Teacher role resolved to the student endpoint
C18_Witness ==
    /\ lastOp.name = "getRegistrationUrlGivenRole"
    /\ lastOp.input = "Teacher"
    /\ lastOp.ret = STUDENT_REGISTER_URL

(***************************************************************************)
(* C19: the roles of a decoded token are always a sequence: an array of    *)
(* roles is kept unchanged, a single role value is wrapped into a          *)
(* one-element sequence.                                                   *)
(***************************************************************************)
C19_RolesAlwaysSequence ==
    lastOp.name = "normalizeRoles" =>
        /\ lastOp.ret \in Seq(Roles \cup {"undefined"})
        /\ lastOp.input.rolesIsArray => lastOp.ret = lastOp.input.rolesArray
        /\ ~lastOp.input.rolesIsArray =>
              Len(lastOp.ret) = 1 /\ lastOp.ret[1] = lastOp.input.rolesValue

\* a single Teacher role was wrapped
C19_Witness ==
    /\ lastOp.name = "normalizeRoles"
    /\ ~lastOp.input.rolesIsArray
    /\ lastOp.input.rolesValue = "Teacher"
    /\ lastOp.ret = <<"Teacher">>

(***************************************************************************)
(* C16: register never authenticates the user: posting it, its success     *)
(* and its failure all leave both scopes and the flag as they were and     *)
(* broadcast nothing; success delivers the registration success message,   *)
(* any failure delivers one fixed message whatever the server answered.    *)
(***************************************************************************)
C16_RegisterNeverAuthenticates ==
    [][registerPending' # registerPending =>
        /\ sessionStorage' = sessionStorage
        /\ localStorage' = localStorage
        /\ authenticated' = authenticated
        /\ Len(registerPending') < Len(registerPending) =>
              /\ lastOp'.name \in {"registerNext", "registerError"}
              /\ lastOp'.emitted = <<>>
              /\ lastOp'.name = "registerNext" =>
                    ~lastOp'.errored /\ lastOp'.ret = "registration success"
              /\ lastOp'.name = "registerError" =>
                    lastOp'.errored /\ lastOp'.ret = "Invalid Username or Password"]_vars

\* a registration has succeeded and the user is still signed out
C16_Witness ==
    /\ lastOp.name = "registerNext"
    /\ lastOp.ret = "registration success"
    /\ ~authenticated
    /\ sessionStorage = Null
    /\ localStorage = Null

\* a registration has failed on a server error and the user is still signed out
C16_WitnessFailure ==
    /\ lastOp.name = "registerError"
    /\ lastOp.arg = "500"
    /\ lastOp.ret = "Invalid Username or Password"
    /\ ~authenticated

(***************************************************************************)
(* Two logins in flight: login(user, true) was submitted first and         *)
(* login(user, false) second, from a fresh session; their responses        *)
(* arrive in either order.                                                 *)
(***************************************************************************)
InitRace ==
    /\ sessionStorage \in StoredValues
    /\ localStorage \in StoredValues
    /\ sessionStorage = Null \/ localStorage = Null
    /\ authenticated = FALSE
    /\ clock = 0
    /\ loginPending = <<[remember |-> TRUE], [remember |-> FALSE]>>
    /\ registerPending = <<>>
    /\ lastOp = [name |-> "init", arg |-> "none", ret |-> "none", threw |-> "none",
                 errored |-> FALSE, emitted |-> <<>>, parsed |-> <<>>,
                 preAuth |-> FALSE, nav |-> "none", url |-> "none", token |-> Null]

NextRace ==
    \/ LoginNext
    \/ LoginError

SpecRace == InitRace /\ [][NextRace]_vars

\* what setItem leaves in storage for the token field of a response body
StoredForm(token) == IF token = Null THEN Some(UndefinedString) ELSE token

(***************************************************************************)
(* C20: with two logins in flight and their responses delivered in either  *)
(* order, every delivered success saves in one step: afterwards exactly    *)
(* one scope holds a token, the token and the scope are those of that      *)
(* response, and the flag is true; so after both are delivered the state   *)
(* is that of the success delivered last, not of the login submitted last. *)
(***************************************************************************)
C20_LastDeliveredWins ==
    lastOp.name = "loginNext" /\ ~lastOp.errored =>
        /\ authenticated
        /\ lastOp.arg = "true" =>
              localStorage = StoredForm(lastOp.token) /\ sessionStorage = Null
        /\ lastOp.arg = "false" =>
              sessionStorage = StoredForm(lastOp.token) /\ localStorage = Null

\* both responses are delivered, both successes, and the one delivered last
\* belongs to the login submitted first: its token sits in local storage
C20_Witness ==
    /\ loginPending = <<>>
    /\ lastOp.name = "loginNext"
    /\ ~lastOp.errored
    /\ lastOp.preAuth
    /\ lastOp.arg = "true"
    /\ lastOp.token = Some(TokAlice)
    /\ localStorage = Some(TokAlice)
    /\ sessionStorage = Null
    /\ authenticated

(***************************************************************************)
(* A login in flight across a logout: login(user, remember) has been       *)
(* submitted and its response is outstanding; the user enters the guarded  *)
(* home route and logs out.  No further login is submitted, so every       *)
(* response that arrives belongs to a login submitted before any logout.   *)
(***************************************************************************)
InitStaleLogin ==
    /\ sessionStorage \in StoredValues
    /\ localStorage \in StoredValues
    /\ sessionStorage = Null \/ localStorage = Null
    /\ authenticated = FALSE
    /\ clock \in 0..MaxClock
    /\ \E remember \in RememberValues : loginPending = <<[remember |-> remember]>>
    /\ registerPending = <<>>
    /\ lastOp = [name |-> "init", arg |-> "none", ret |-> "none", threw |-> "none",
                 errored |-> FALSE, emitted |-> <<>>, parsed |-> <<>>,
                 preAuth |-> FALSE, nav |-> "none", url |-> "none", token |-> Null]

NextStaleLogin ==
    \/ CanActivate
    \/ Logout
    \/ LoginNext
    \/ LoginError

SpecStaleLogin == InitStaleLogin /\ [][NextStaleLogin]_vars

(***************************************************************************)
(* C21: once logout() has completed, the session stays signed out with     *)
(* both scopes empty until a login is submitted after it: the response of  *)
(* a login submitted before the logout, delivered right after it, stores   *)
(* no token and does not set the flag.                                     *)
(***************************************************************************)
C21_LogoutOutlivesStaleLogin ==
    /\ [](lastOp.name = "logout" =>
            sessionStorage = Null /\ localStorage = Null /\ ~authenticated)
    /\ [][lastOp.name = "logout" =>
            sessionStorage' = Null /\ localStorage' = Null /\ ~authenticated']_vars

(***************************************************************************)
(* C22: isAuthenticated(), isInRole(), getUsername() and canActivate()     *)
(* never write to or remove from either storage scope: both scopes hold    *)
(* after the call what they held before it, also when the stored token is  *)
(* expired or malformed and also when the call throws.                     *)
(***************************************************************************)
C22_QueriesLeaveStorage ==
    [][IsAuthenticated \/ CanActivate \/ IsInRole \/ GetUsername =>
        /\ lastOp'.name \in QueryNames
        /\ sessionStorage' = sessionStorage
        /\ localStorage' = localStorage]_vars

\* isAuthenticated() has answered false on an expired token, which is still
\* in storage
C22_Witness ==
    /\ lastOp.name = "isAuthenticated"
    /\ lastOp.ret = "false"
    /\ localStorage = Some(TokAlice)
    /\ HoldsExpiredToken(sessionStorage, localStorage, nowInMilli)

\* a query has run over a malformed entry, which is still in storage
C22_WitnessMalformed ==
    /\ lastOp.name \in QueryNames
    /\ sessionStorage = Some(TokTwoSegments)
    /\ localStorage = Null

====
